---- MODULE Spec2Model ----
(***************************************************************************)
(* goenvsubst: Do(v) walks a Go value by reflection and replaces every      *)
(* settable string of the form "$NAME" by os.Getenv("NAME").                *)
(*                                                                         *)
(* Go values are modelled as trees (struct fields and array elements are    *)
(* stored inline) whose pointers, slices and maps refer to heap cells.      *)
(* A reflect.Value is a handle: the heap cell it lives in, the path of      *)
(* field / element indices inside that cell, and whether it can be set.     *)
(* The recursion of doValue is an explicit call stack, one frame per call.  *)
(***************************************************************************)
EXTENDS Integers, Sequences, FiniteSets, TLC

VARIABLES
    heap,    \* memory: address -> cell (a variable holding a value, or a map)
    env,     \* the process environment: defined variable name -> value
    arg,     \* per goroutine: the cell holding the interface value given to Do
    stack,   \* per goroutine: the call stack of doValue and its handlers
    status,  \* per goroutine: "idle", "ready", "running", "returned", "panicked",
             \* "overflow" (fatal error: stack overflow)
    calls,   \* per goroutine: how many times Do has been called
    pre,     \* per goroutine: the heaps at its calls of Do, oldest first
    doValueCalls  \* per goroutine: the calls of doValue in its latest call of Do

vars == <<heap, env, arg, stack, status, calls, pre, doValueCalls>>

\* Bound of the model: how many containers are nested around a leaf.
MaxDepth == 2
\* Bound of the model: the calls of doValue a goroutine's stack has room for
\* (the Go runtime ends the process when a goroutine's stack passes its limit).
MaxStack == 8

NIL == 0
Procs == {1, 2}

----------------------------------------------------------------------------
\* Strings are sequences of characters; "$" is the trigger character.
\* The strings of the inputs: empty, the bare trigger, a name without trigger,
\* "$" + name, "$" after the first character, and "$" + a name that begins
\* with "$".
Strs == {<<>>, <<"$">>, <<"A">>, <<"A", "A">>, <<"$", "A">>, <<"A", "$">>,
         <<"$", "$">>}
\* The environments: nothing set, or one variable set to "", to a string
\* without "$" or to a string that begins with "$".
Names == {<<"A">>, <<"$">>}
EnvVals == {<<>>, <<"A", "A">>, <<"$", "$">>}
Envs == {<<>>} \cup {[n \in {name} |-> val] : name \in Names, val \in EnvVals}

\* strings.HasPrefix(s, "$")
HasPrefix(s) == Len(s) >= 1 /\ s[1] = "$"

\* strings.TrimPrefix(s, "$")
TrimPrefix(s) == IF HasPrefix(s) THEN Tail(s) ELSE s

\* os.Getenv: the value of the variable, "" when it is not set.
Getenv(name) == IF name \in DOMAIN env THEN env[name] ELSE <<>>

\* expandEnvVar looking up the string with its "$".
expandEnvVar_keepPrefix(s) == IF ~HasPrefix(s) THEN s ELSE Getenv(s)

\* expandEnvVar triggered by a "$" anywhere in the string.
expandEnvVar_anywhere(s) ==
    IF \E i \in 1..Len(s) : s[i] = "$" THEN Getenv(TrimPrefix(s)) ELSE s

\* expandEnvVar leaving the name in place of an unset variable.
expandEnvVar_nameIfUnset(s) ==
    IF ~HasPrefix(s) THEN s
    ELSE IF TrimPrefix(s) \in DOMAIN env THEN env[TrimPrefix(s)] ELSE TrimPrefix(s)

\* func expandEnvVar(s string) string
expandEnvVar(s) == IF ~HasPrefix(s) THEN s ELSE Getenv(TrimPrefix(s))

----------------------------------------------------------------------------
\* Go values. `named` marks a defined type whose underlying kind is string.
StrV(s, named) == [k |-> "string", s |-> s, named |-> named]
IntV(n) == [k |-> "int", n |-> n]
BoolV(b) == [k |-> "bool", b |-> b]
PtrV(a) == [k |-> "ptr", ref |-> a]
StructV(fs) == [k |-> "struct", f |-> fs]
FieldV(exported, v) == [exp |-> exported, v |-> v]
ArrayV(es) == [k |-> "array", e |-> es]
SliceV(a, off, len) == [k |-> "slice", ref |-> a, off |-> off, len |-> len]
MapV(a) == [k |-> "map", ref |-> a]

\* Heap cells: a variable (a pointee, a slice's backing array, the copy made
\* by reflect.New) or the contents of a map.
VarCell(v) == [c |-> "var", v |-> v]
MapCell(m) == [c |-> "map", m |-> m]

RECURSIVE Get(_, _)
Get(v, p) ==
    IF Len(p) = 0 THEN v
    ELSE IF v.k = "struct" THEN Get(v.f[Head(p)].v, Tail(p))
    ELSE Get(v.e[Head(p)], Tail(p))

RECURSIVE Put(_, _, _)
Put(v, p, x) ==
    IF Len(p) = 0 THEN x
    ELSE IF v.k = "struct"
         THEN [v EXCEPT !.f[Head(p)].v = Put(@, Tail(p), x)]
         ELSE [v EXCEPT !.e[Head(p)] = Put(@, Tail(p), x)]

\* reflect.Value: where the value lives and whether CanSet() holds.
Handle(a, p, canSet) == [a |-> a, p |-> p, canSet |-> canSet]
Read(h) == Get(heap[h.a].v, h.p)

\* reflect.ValueOf(v) handing out a value that can be set.
ValueOf_settable(a) == Handle(a, <<>>, TRUE)
\* Do keeping its argument in a package variable that the first caller sets.
ValueOf_shared(a) == Handle(arg[1], <<>>, FALSE)
\* reflect.ValueOf(v): the interface's value, not addressable.
ValueOf(a) == Handle(a, <<>>, FALSE)
\* v.Elem() of a non-nil pointer: the pointee, addressable.
Elem(h) == Handle(Read(h).ref, <<>>, TRUE)
\* v.Field(i) as settable as v, exported or not.
Field_exportedOrNot(h, i) == Handle(h.a, Append(h.p, i + 1), h.canSet)
\* v.Field(i), i from 0: settable when v is and the field is exported.
Field(h, i) == Handle(h.a, Append(h.p, i + 1), h.canSet /\ Read(h).f[i + 1].exp)
\* v.Index(i), i from 0: an array element is as settable as the array, a
\* slice element lives in the backing array and is always settable.
Index(h, i) ==
    LET v == Read(h) IN
    IF v.k = "slice" THEN Handle(v.ref, <<v.off + i + 1>>, TRUE)
    ELSE Handle(h.a, Append(h.p, i + 1), h.canSet)
\* The loop bound one short: i < v.Len()-1.
LenOf_short(v) == IF v.k = "slice" THEN v.len - 1 ELSE Len(v.e) - 1
\* v.Len() of a slice or an array.
LenOf(v) == IF v.k = "slice" THEN v.len ELSE Len(v.e)
\* v.MapKeys()
MapKeys(h) == DOMAIN heap[Read(h).ref].m

\* reflect.New(T).Elem(): a fresh addressable variable.
NewAddr == CHOOSE a \in 1..(Cardinality(DOMAIN heap) + 1) : a \notin DOMAIN heap

----------------------------------------------------------------------------
\* Call frames.
Frame(fn, h, i, keys, key, tmp) ==
    [fn |-> fn, h |-> h, i |-> i, keys |-> keys, key |-> key, tmp |-> tmp]
Call(fn, h) == Frame(fn, h, 0, {}, <<>>, NIL)

Top(p) == stack[p][Len(stack[p])]
Below(p) == SubSeq(stack[p], 1, Len(stack[p]) - 1)
Running(p, fn) == status[p] = "running" /\ Len(stack[p]) > 0 /\ Top(p).fn = fn

\* return nil from the top frame; Do returns when the last frame does.
Return(p) ==
    /\ stack' = [stack EXCEPT ![p] = Below(p)]
    /\ status' = [status EXCEPT ![p] = IF Len(stack[p]) = 1 THEN "returned" ELSE @]
    /\ UNCHANGED doValueCalls

\* tail call: return fn(v)
Goto(p, fn, h) ==
    /\ stack' = [stack EXCEPT ![p] = Append(Below(p), Call(fn, h))]
    /\ UNCHANGED <<status, doValueCalls>>

\* the top frame continues as `fr`
Continue(p, fr) ==
    /\ stack' = [stack EXCEPT ![p] = Append(Below(p), fr)]
    /\ UNCHANGED <<status, doValueCalls>>

\* the top frame continues as `fr` and calls doValue(h); without room for the
\* call the runtime ends the process
CallValue(p, fr, h) ==
    /\ doValueCalls' = [doValueCalls EXCEPT ![p] = @ + 1]
    /\ IF Len(stack[p]) < MaxStack
       THEN /\ stack' = [stack EXCEPT ![p] = Below(p) \o <<fr, Call("doValue", h)>>]
            /\ UNCHANGED status
       ELSE /\ stack' = [stack EXCEPT ![p] = <<>>]
            /\ status' = [status EXCEPT ![p] = "overflow"]

\* a run-time panic unwinds the goroutine's stack
Panic(p) ==
    /\ stack' = [stack EXCEPT ![p] = <<>>]
    /\ status' = [status EXCEPT ![p] = "panicked"]
    /\ UNCHANGED doValueCalls

----------------------------------------------------------------------------
\* func Do(v any) error { return doValue(reflect.ValueOf(v)) }
Enter(p) ==
    /\ stack' = [stack EXCEPT ![p] = <<Call("doValue", ValueOf(arg[p]))>>]
    /\ status' = [status EXCEPT ![p] = "running"]
    /\ calls' = [calls EXCEPT ![p] = @ + 1]
    /\ pre' = [pre EXCEPT ![p] = Append(@, heap)]
    /\ doValueCalls' = [doValueCalls EXCEPT ![p] = 1]
    /\ UNCHANGED <<heap, env, arg>>

Do(p) ==
    /\ status[p] = "ready"
    /\ Enter(p)

\* doValue failing on a nil pointer instead of returning nil.
doValue_nilFails(p) ==
    /\ Running(p, "doValue")
    /\ LET h0 == Top(p).h
           v0 == Read(h0)
       IN IF v0.k = "ptr" /\ v0.ref = NIL
          THEN Panic(p)
          ELSE LET h == IF v0.k = "ptr" THEN Elem(h0) ELSE h0
                   k == Read(h).k
               IN IF k = "string" THEN Goto(p, "doString", h)
                  ELSE IF k = "struct" THEN Goto(p, "doStruct", h)
                  ELSE IF k \in {"slice", "array"} THEN Goto(p, "doSliceArray", h)
                  ELSE IF k = "map" THEN Goto(p, "doMap", h)
                  ELSE Return(p)
    /\ UNCHANGED <<heap, env, arg, calls, pre>>

\* func doValue(v reflect.Value) error
doValue(p) ==
    /\ Running(p, "doValue")
    /\ LET h0 == Top(p).h
           v0 == Read(h0)
       IN IF v0.k = "ptr" /\ v0.ref = NIL
          THEN Return(p)
          ELSE LET h == IF v0.k = "ptr" THEN Elem(h0) ELSE h0
                   k == Read(h).k
               IN IF k = "string" THEN Goto(p, "doString", h)
                  ELSE IF k = "struct" THEN Goto(p, "doStruct", h)
                  ELSE IF k \in {"slice", "array"} THEN Goto(p, "doSliceArray", h)
                  ELSE IF k = "map" THEN Goto(p, "doMap", h)
                  ELSE Return(p)
    /\ UNCHANGED <<heap, env, arg, calls, pre>>

\* v.SetString(x): the string keeps its type.
SetString(h, x) ==
    [heap EXCEPT ![h.a].v = Put(@, h.p, StrV(x, Read(h).named))]

\* func doString(v reflect.Value) error
doString(p) ==
    /\ Running(p, "doString")
    /\ LET h == Top(p).h IN
       heap' = IF h.canSet THEN SetString(h, expandEnvVar(Read(h).s)) ELSE heap
    /\ Return(p)
    /\ UNCHANGED <<env, arg, calls, pre>>

\* func doStruct(v reflect.Value) error: one iteration of its loop
doStruct(p) ==
    /\ Running(p, "doStruct")
    /\ LET fr == Top(p)
           next == [fr EXCEPT !.i = @ + 1]
       IN IF fr.i >= Len(Read(fr.h).f)
          THEN Return(p)
          ELSE IF Field(fr.h, fr.i).canSet
               THEN CallValue(p, next, Field(fr.h, fr.i))
               ELSE Continue(p, next)
    /\ UNCHANGED <<heap, env, arg, calls, pre>>

\* func doSliceArray(v reflect.Value) error: one iteration of its loop
doSliceArray(p) ==
    /\ Running(p, "doSliceArray")
    /\ LET fr == Top(p)
           next == [fr EXCEPT !.i = @ + 1]
       IN IF fr.i >= LenOf(Read(fr.h))
          THEN Return(p)
          ELSE CallValue(p, next, Index(fr.h, fr.i))
    /\ UNCHANGED <<heap, env, arg, calls, pre>>

\* SetMapIndex storing under the substituted key.
SetMapIndex_expandKey(m, key, elem) ==
    [k \in (DOMAIN m \ {key}) \cup {expandEnvVar(key)} |->
        IF k = expandEnvVar(key) THEN elem ELSE m[k]]

\* SetMapIndex left out: the entry keeps its old value.
SetMapIndex_dropped(m, key, elem) == m

\* v.SetMapIndex(key, elem) on the contents m of the map
SetMapIndex(m, key, elem) == [m EXCEPT ![key] = elem]

\* newValue.Set(mapValue) left out: the copy of a number is the zero value.
NewCopy_zero(mapValue) ==
    VarCell(IF mapValue.k = "int" THEN IntV(0) ELSE mapValue)

\* newValue := reflect.New(mapValue.Type()).Elem(); newValue.Set(mapValue)
NewCopy(mapValue) == VarCell(mapValue)

\* func doMap(v reflect.Value) error: one iteration of `range v.MapKeys()`, up
\* to the recursive call. MapKeys is taken once, when the loop starts (i = 0);
\* its order is unspecified.
doMap(p) ==
    /\ Running(p, "doMap")
    /\ Top(p).tmp = NIL
    /\ LET fr == Top(p)
           ref == Read(fr.h).ref
           keys == IF fr.i = 0 THEN MapKeys(fr.h) ELSE fr.keys
       IN IF keys = {}
          THEN Return(p) /\ UNCHANGED heap
          ELSE \E key \in keys :
               LET mapValue == heap[ref].m[key]
                   next == [fr EXCEPT !.i = 1, !.keys = keys \ {key}]
               IN IF mapValue.k = "string"
                  THEN LET original == mapValue.s
                           expanded == expandEnvVar(original)
                       IN IF expanded = original
                          THEN Continue(p, next) /\ UNCHANGED heap
                          ELSE IF mapValue.named
                               \* reflect.ValueOf(expanded) has type string, which
                               \* is not assignable to the map's named element type
                               THEN Panic(p) /\ UNCHANGED heap
                               ELSE /\ heap' = [heap EXCEPT ![ref].m =
                                          SetMapIndex(@, key, StrV(expanded, FALSE))]
                                    /\ Continue(p, next)
                  ELSE LET t == NewAddr IN
                       /\ heap' = [a \in DOMAIN heap \cup {t} |->
                                     IF a = t THEN NewCopy(mapValue) ELSE heap[a]]
                       /\ CallValue(p, [next EXCEPT !.key = key, !.tmp = t],
                                    Handle(t, <<>>, TRUE))
    /\ UNCHANGED <<env, arg, calls, pre>>

\* doMap after doValue(newValue) returned: v.SetMapIndex(key, newValue). The
\* copy is garbage from then on.
doMapStore(p) ==
    /\ Running(p, "doMap")
    /\ Top(p).tmp # NIL
    /\ LET fr == Top(p)
           ref == Read(fr.h).ref
           stored == [heap EXCEPT ![ref].m = SetMapIndex(@, fr.key, heap[fr.tmp].v)]
       IN /\ heap' = [a \in DOMAIN heap \ {fr.tmp} |-> stored[a]]
          /\ Continue(p, [fr EXCEPT !.key = <<>>, !.tmp = NIL])
    /\ UNCHANGED <<env, arg, calls, pre>>

----------------------------------------------------------------------------
\* The inputs: a leaf wrapped in up to MaxDepth containers, each container
\* holding the wrapped value first and a second value after it.
Kinds == {"ptr", "field", "ufield", "array", "slice", "map"}
Shapes == UNION {[1..n -> Kinds] : n \in 0..MaxDepth}
\* struct { I int; B bool }{42, true}
NonStrings == StructV(<<FieldV(TRUE, IntV(42)), FieldV(TRUE, BoolV(TRUE))>>)
\* type MyString string
MyStrings == {StrV(<<"$", "A">>, TRUE), StrV(<<"A">>, TRUE)}
Leaves == {StrV(s, FALSE) : s \in Strs} \cup MyStrings
              \cup {IntV(42), PtrV(NIL), NonStrings}
Sibling == StrV(<<"$", "A">>, FALSE)
\* map keys: the wrapped value's key begins with "$"
PayKey == <<"$", "A">>
SibKey == <<"k">>

\* A second value of v's type for the containers whose elements share one
\* type (array, slice, map): v copied into fresh cells of heap h (a sequence
\* of cells), every string of the copy "$A" and a nil pointer of it a pointer
\* to "$A".
RECURSIVE Clone(_, _)
Clone(v, h) ==
    CASE v.k = "string" -> [v |-> StrV(<<"$", "A">>, v.named), h |-> h]
      [] v.k \in {"int", "bool"} -> [v |-> v, h |-> h]
      [] v.k = "ptr" ->
           LET c == IF v.ref = NIL THEN [v |-> Sibling, h |-> h]
                    ELSE Clone(h[v.ref].v, h)
           IN [v |-> PtrV(Len(c.h) + 1), h |-> Append(c.h, VarCell(c.v))]
      [] v.k = "struct" ->
           LET c1 == Clone(v.f[1].v, h)
               c2 == Clone(v.f[2].v, c1.h)
           IN [v |-> StructV(<<FieldV(v.f[1].exp, c1.v), FieldV(v.f[2].exp, c2.v)>>),
               h |-> c2.h]
      [] v.k = "array" ->
           LET c1 == Clone(v.e[1], h)
               c2 == Clone(v.e[2], c1.h)
           IN [v |-> ArrayV(<<c1.v, c2.v>>), h |-> c2.h]
      [] v.k = "slice" ->
           LET c == Clone(h[v.ref].v, h)
           IN [v |-> SliceV(Len(c.h) + 1, v.off, v.len),
               h |-> Append(c.h, VarCell(c.v))]
      [] v.k = "map" ->
           LET c1 == Clone(h[v.ref].m[PayKey], h)
               c2 == Clone(h[v.ref].m[SibKey], c1.h)
           IN [v |-> MapV(Len(c2.h) + 1),
               h |-> Append(c2.h, MapCell([key \in {PayKey, SibKey} |->
                                             IF key = PayKey THEN c1.v ELSE c2.v]))]

\* The value of kind `kind` around v, in heap h (a sequence of cells): v
\* first, a second value after it (in a struct a string field "$A").
Wrap(kind, v, h) ==
    LET c == Clone(v, h)
        a == Len(c.h) + 1
    IN
    CASE kind = "ptr" -> [v |-> PtrV(Len(h) + 1), h |-> Append(h, VarCell(v))]
      [] kind = "field" ->
           [v |-> StructV(<<FieldV(TRUE, v), FieldV(TRUE, Sibling)>>), h |-> h]
      [] kind = "ufield" ->
           [v |-> StructV(<<FieldV(FALSE, v), FieldV(TRUE, Sibling)>>), h |-> h]
      [] kind = "array" -> [v |-> ArrayV(<<v, c.v>>), h |-> c.h]
      [] kind = "slice" ->
           [v |-> SliceV(a, 0, 2), h |-> Append(c.h, VarCell(ArrayV(<<v, c.v>>)))]
      [] kind = "map" ->
           [v |-> MapV(a),
            h |-> Append(c.h, MapCell([key \in {PayKey, SibKey} |->
                                         IF key = PayKey THEN v ELSE c.v]))]

\* shape[1] is the outermost container; the cells are added to those of base.
RECURSIVE BuildOn(_, _, _)
BuildOn(shape, leaf, base) ==
    IF Len(shape) = 0 THEN [v |-> leaf, h |-> base]
    ELSE LET inner == BuildOn(Tail(shape), leaf, base)
         IN Wrap(Head(shape), inner.v, inner.h)

Build(shape, leaf) == BuildOn(shape, leaf, <<>>)

\* The heap of an input; its last cell holds the argument of Do.
Input(shape, leaf) ==
    LET b == Build(shape, leaf) IN Append(b.h, VarCell(b.v))

Init ==
    \E shape \in Shapes, leaf \in Leaves, e \in Envs :
        LET h == Input(shape, leaf) IN
        /\ heap = h
        /\ env = e
        /\ arg = [p \in Procs |-> IF p = 1 THEN Len(h) ELSE NIL]
        /\ stack = [p \in Procs |-> <<>>]
        /\ status = [p \in Procs |-> IF p = 1 THEN "ready" ELSE "idle"]
        /\ calls = [p \in Procs |-> 0]
        /\ pre = [p \in Procs |-> <<>>]
        /\ doValueCalls = [p \in Procs |-> 0]

Next ==
    \E p \in Procs :
        \/ Do(p)
        \/ doValue(p)
        \/ doString(p)
        \/ doStruct(p)
        \/ doSliceArray(p)
        \/ doMap(p)
        \/ doMapStore(p)

Spec == Init /\ [][Next]_vars

\* A second call of Do on the same argument, after the first returned.
DoAgain(p) ==
    /\ status[p] = "returned"
    /\ calls[p] < 2
    /\ Enter(p)

NextTwice ==
    \/ Next
    \/ \E p \in Procs : DoAgain(p)

SpecTwice == Init /\ [][NextTwice]_vars

\* Two goroutines, each calling Do on a structure of its own; the structures
\* share no cell. The first goroutine passes a pointer to a leaf in MaxDepth - 1
\* containers, the second a map of structs or a slice of strings.
ParShapes == {s \in [1..MaxDepth -> Kinds] : s[1] = "ptr"}
ParLeaves == {StrV(<<"$", "A">>, FALSE), StrV(<<"$", "A">>, TRUE)}
ParOthers == {<<<<"map", "field">>, StrV(<<"$", "$">>, FALSE)>>,
              <<<<"slice">>, StrV(<<"$", "A">>, FALSE)>>}
ParEnvs == {e \in Envs : e = <<>> \/ (<<"A">> \in DOMAIN e /\ e[<<"A">>] = <<"A", "A">>)}

InitPar ==
    \E shape \in ParShapes, leaf \in ParLeaves, other \in ParOthers, e \in ParEnvs :
        LET h1 == Input(shape, leaf)
            b2 == BuildOn(other[1], other[2], h1)
            h2 == Append(b2.h, VarCell(b2.v))
        IN
        /\ heap = h2
        /\ env = e
        /\ arg = [p \in Procs |-> IF p = 1 THEN Len(h1) ELSE Len(h2)]
        /\ stack = [p \in Procs |-> <<>>]
        /\ status = [p \in Procs |-> "ready"]
        /\ calls = [p \in Procs |-> 0]
        /\ pre = [p \in Procs |-> <<>>]
        /\ doValueCalls = [p \in Procs |-> 0]

SpecPar == InitPar /\ [][Next]_vars

\* Inputs in which one string is reachable along two paths: a struct whose two
\* pointer fields hold the same pointer, a struct whose two slice fields share
\* their backing array, and a map holding the same inner map under two keys.
\* The last cell holds the argument of Do.
SharedKinds == {"pointer", "slices", "map"}
Shared(kind, leaf) ==
    CASE kind = "pointer" ->
           <<VarCell(leaf),
             VarCell(StructV(<<FieldV(TRUE, PtrV(1)), FieldV(TRUE, PtrV(1))>>)),
             VarCell(PtrV(2))>>
      [] kind = "slices" ->
           <<VarCell(ArrayV(<<leaf, Sibling, Sibling, Sibling>>)),
             VarCell(StructV(<<FieldV(TRUE, SliceV(1, 0, 4)),
                               FieldV(TRUE, SliceV(1, 0, 4))>>)),
             VarCell(PtrV(2))>>
      [] kind = "map" ->
           <<MapCell([key \in {PayKey, SibKey} |->
                        IF key = PayKey THEN leaf ELSE Sibling]),
             MapCell([key \in {PayKey, SibKey} |-> MapV(1)]),
             VarCell(MapV(2))>>

InitShared ==
    \E kind \in SharedKinds, s \in Strs, e \in Envs :
        LET h == Shared(kind, StrV(s, FALSE)) IN
        /\ heap = h
        /\ env = e
        /\ arg = [p \in Procs |-> IF p = 1 THEN Len(h) ELSE NIL]
        /\ stack = [p \in Procs |-> <<>>]
        /\ status = [p \in Procs |-> IF p = 1 THEN "ready" ELSE "idle"]
        /\ calls = [p \in Procs |-> 0]
        /\ pre = [p \in Procs |-> <<>>]
        /\ doValueCalls = [p \in Procs |-> 0]

SpecShared == InitShared /\ [][Next]_vars

\* Inputs that reach themselves: type Node struct { Next *Node; S string }
\* with n.Next = &n, type S []S with s[0] = s, and type M map[string]M with
\* m["k"] = m. The last cell holds the argument of Do.
CyclicKinds == {"pointer", "slice", "map"}
Cyclic(kind) ==
    CASE kind = "pointer" ->
           <<VarCell(StructV(<<FieldV(TRUE, PtrV(1)), FieldV(TRUE, Sibling)>>)),
             VarCell(PtrV(1))>>
      [] kind = "slice" ->
           <<VarCell(ArrayV(<<SliceV(1, 0, 1)>>)), VarCell(SliceV(1, 0, 1))>>
      [] kind = "map" ->
           <<MapCell([key \in {SibKey} |-> MapV(1)]), VarCell(MapV(1))>>

InitCyclic ==
    \E kind \in CyclicKinds, e \in Envs :
        LET h == Cyclic(kind) IN
        /\ heap = h
        /\ env = e
        /\ arg = [p \in Procs |-> IF p = 1 THEN Len(h) ELSE NIL]
        /\ stack = [p \in Procs |-> <<>>]
        /\ status = [p \in Procs |-> IF p = 1 THEN "ready" ELSE "idle"]
        /\ calls = [p \in Procs |-> 0]
        /\ pre = [p \in Procs |-> <<>>]
        /\ doValueCalls = [p \in Procs |-> 0]

SpecCyclic == InitCyclic /\ [][Next]_vars

\* Two runs of Do on equal inputs, one after the other, each free to take the
\* keys of every map in an order of its own: the two goroutines are given a
\* copy each of one input with a map in it, and the second calls Do when the
\* first is over. The inputs are those of Init that have a map, and a
\* map[string]T of type T struct { S string; M map[string]MyString } whose
\* cells follow the n cells of the first copy.
OrderShapes == {s \in Shapes : \E i \in DOMAIN s : s[i] = "map"}
Mixed(leaf, n) ==
    <<MapCell([key \in {SibKey} |-> StrV(<<"A">>, TRUE)]),
      MapCell([key \in {SibKey} |-> StrV(<<"$", "A">>, TRUE)]),
      MapCell([key \in {PayKey, SibKey} |->
                 IF key = PayKey
                 THEN StructV(<<FieldV(TRUE, leaf), FieldV(TRUE, MapV(n + 1))>>)
                 ELSE StructV(<<FieldV(TRUE, Sibling), FieldV(TRUE, MapV(n + 2))>>)]),
      VarCell(MapV(n + 3))>>

InitOrder ==
    \E e \in Envs :
        \E hs \in {<<Input(shape, leaf),
                      LET b == BuildOn(shape, leaf, Input(shape, leaf))
                      IN Append(b.h, VarCell(b.v))>> :
                       shape \in OrderShapes, leaf \in Leaves}
                  \cup {<<Mixed(leaf, 0), Mixed(leaf, 0) \o Mixed(leaf, 4)>> :
                           leaf \in {StrV(x, FALSE) : x \in Strs}} :
        /\ heap = hs[2]
        /\ env = e
        /\ arg = [p \in Procs |-> IF p = 1 THEN Len(hs[1]) ELSE Len(hs[2])]
        /\ stack = [p \in Procs |-> <<>>]
        /\ status = [p \in Procs |-> IF p = 1 THEN "ready" ELSE "idle"]
        /\ calls = [p \in Procs |-> 0]
        /\ pre = [p \in Procs |-> <<>>]
        /\ doValueCalls = [p \in Procs |-> 0]

\* The call of Do by a goroutine that waited for the others to be over.
DoAfter(p) ==
    /\ status[p] = "idle"
    /\ arg[p] # NIL
    /\ \A q \in Procs \ {p} : status[q] \in {"returned", "panicked"}
    /\ Enter(p)

NextOrder ==
    \/ Next
    \/ \E p \in Procs : DoAfter(p)

SpecOrder == InitOrder /\ [][NextOrder]_vars

\* The scheduler keeps running a goroutine that can take a step.
SpecFair == Spec /\ WF_vars(Next)
SpecSharedFair == SpecShared /\ WF_vars(Next)
SpecCyclicFair == SpecCyclic /\ WF_vars(Next)

\* Inputs with an unexported field in a struct that Do can set: a pointer to
\* a value that has an unexported field among its up to MaxDepth containers.
UnexportedShapes ==
    {<<"ptr">> \o s : s \in {t \in Shapes : \E i \in DOMAIN t : t[i] = "ufield"}}

InitUnexported ==
    \E shape \in UnexportedShapes, leaf \in Leaves, e \in Envs :
        LET h == Input(shape, leaf) IN
        /\ heap = h
        /\ env = e
        /\ arg = [p \in Procs |-> IF p = 1 THEN Len(h) ELSE NIL]
        /\ stack = [p \in Procs |-> <<>>]
        /\ status = [p \in Procs |-> IF p = 1 THEN "ready" ELSE "idle"]
        /\ calls = [p \in Procs |-> 0]
        /\ pre = [p \in Procs |-> <<>>]
        /\ doValueCalls = [p \in Procs |-> 0]

SpecUnexported == InitUnexported /\ [][Next]_vars

----------------------------------------------------------------------------
\* Places of a heap h. A slot <<a, FALSE, <<>>>> is the variable in cell a, a
\* slot <<a, TRUE, key>> the entry of the map in cell a under key; a location
\* <<slot, path>> is the value at path inside the slot's value.
VarSlot(a) == <<a, FALSE, <<>>>>
MapSlot(a, key) == <<a, TRUE, key>>
Slots(h) ==
    {VarSlot(a) : a \in {x \in DOMAIN h : h[x].c = "var"}}
        \cup UNION {{MapSlot(a, key) : key \in DOMAIN h[a].m} :
                        a \in {x \in DOMAIN h : h[x].c = "map"}}
SlotVal(h, slot) == IF slot[2] THEN h[slot[1]].m[slot[3]] ELSE h[slot[1]].v

RECURSIVE SubPaths(_)
SubPaths(v) ==
    {<<>>} \cup
    IF v.k = "struct"
    THEN UNION {{<<i>> \o q : q \in SubPaths(v.f[i].v)} : i \in 1..Len(v.f)}
    ELSE IF v.k = "array"
    THEN UNION {{<<i>> \o q : q \in SubPaths(v.e[i])} : i \in 1..Len(v.e)}
    ELSE {}

Locs(h) == UNION {{<<slot, q>> : q \in SubPaths(SlotVal(h, slot))} : slot \in Slots(h)}
At(h, loc) == Get(SlotVal(h, loc[1]), loc[2])
StrLocs(h) == {loc \in Locs(h) : At(h, loc).k = "string"}

\* Substitution as documented: a string that begins with "$" becomes the value
\* of the variable named by the rest of it, "" when that variable is unset or
\* empty; any other string stays.
Lookup(name) == IF name \in DOMAIN env /\ env[name] # <<>> THEN env[name] ELSE <<>>
Substitute(s) == IF Len(s) > 0 /\ Head(s) = "$" THEN Lookup(Tail(s)) ELSE s

\* The visits <<slot, path, canSet>> that doValue makes in heap h when called
\* on the value at <<slot, path>>: one for every value its switch sees (a map
\* entry counts as settable: doMap replaces it). Walk is doValue's pointer
\* step, Visit its switch and the handlers' loops.
RECURSIVE Walk(_, _, _, _), Visit(_, _, _, _)
Walk(h, slot, path, canSet) ==
    LET v == Get(SlotVal(h, slot), path) IN
    IF v.k = "ptr"
    THEN IF v.ref = NIL THEN {} ELSE Visit(h, VarSlot(v.ref), <<>>, TRUE)
    ELSE Visit(h, slot, path, canSet)
Visit(h, slot, path, canSet) ==
    LET v == Get(SlotVal(h, slot), path) IN
    {<<slot, path, canSet>>} \cup
    IF v.k = "struct"
    THEN UNION {IF canSet /\ v.f[i].exp
                THEN Walk(h, slot, Append(path, i), TRUE) ELSE {} : i \in 1..Len(v.f)}
    ELSE IF v.k = "array"
    THEN UNION {Walk(h, slot, Append(path, i), canSet) : i \in 1..Len(v.e)}
    ELSE IF v.k = "slice"
    THEN UNION {Walk(h, VarSlot(v.ref), <<v.off + i>>, TRUE) : i \in 1..v.len}
    ELSE IF v.k = "map"
    THEN UNION {Walk(h, MapSlot(v.ref, key), <<>>, TRUE) : key \in DOMAIN h[v.ref].m}
    ELSE {}

Visits(h, a) == Walk(h, VarSlot(a), <<>>, FALSE)
\* The settable string locations Do reaches from its argument in cell a.
Reached(h, a) ==
    {<<x[1], x[2]>> : x \in {y \in Visits(h, a) :
                               y[3] /\ At(h, <<y[1], y[2]>>).k = "string"}}
\* The maps (their cells) Do reaches.
MapsReached(h, a) ==
    {At(h, <<x[1], x[2]>>).ref :
        x \in {y \in Visits(h, a) : At(h, <<y[1], y[2]>>).k = "map"}}

Called(p) == status[p] \in {"running", "returned", "panicked"}
Returned(p) == status[p] = "returned"
\* Do is over: it returned or it panicked.
Over(p) == status[p] \in {"returned", "panicked"}
\* The heap when p's running or last call of Do began, and Do's argument then.
Pre(p) == pre[p][Len(pre[p])]
ReachedBy(p) == Reached(Pre(p), arg[p])

----------------------------------------------------------------------------
\* C1: when Do has returned, every settable string Do reaches that held "$" +
\* name holds the environment's value of name if name is set and not empty,
\* and "" if name is unset or set to "".
C1_Substituted ==
    \A p \in Procs : Returned(p) =>
        \A loc \in ReachedBy(p) :
            LET s0 == At(Pre(p), loc).s
                name == Tail(s0)
            IN HasPrefix(s0) =>
                 At(heap, loc).s =
                     IF name \in DOMAIN env /\ env[name] # <<>> THEN env[name] ELSE <<>>

\* C1 witness: Do returned, and a reached "$A" with A set and not empty now
\* holds A's value, and a reached "$$" with "$" unset holds "".
C1_Witness ==
    /\ Returned(1)
    /\ <<"A">> \in DOMAIN env /\ env[<<"A">>] = <<"A", "A">>
    /\ \E loc \in ReachedBy(1) :
        /\ At(Pre(1), loc).s = <<"$", "A">>
        /\ At(heap, loc).s = <<"A", "A">>
    /\ \E loc \in ReachedBy(1) :
        /\ At(Pre(1), loc).s = <<"$", "$">>
        /\ At(heap, loc).s = <<>>

\* C2: when Do is over (even by a panic), every string that did not begin
\* with "$" has the value it had before, wherever it is and whatever the
\* environment holds.
C2_NoPrefixUnchanged ==
    \A p \in Procs : Over(p) =>
        \A loc \in StrLocs(Pre(p)) :
            ~HasPrefix(At(Pre(p), loc).s) => At(heap, loc) = At(Pre(p), loc)

\* C2 witness: Do returned having reached "A$" (a "$" after the first
\* character) with A set: it is unchanged.
C2_Witness ==
    /\ Returned(1)
    /\ <<"A">> \in DOMAIN env /\ env[<<"A">>] # <<>>
    /\ \E loc \in ReachedBy(1) :
        /\ At(Pre(1), loc).s = <<"A", "$">>
        /\ At(heap, loc).s = <<"A", "$">>

\* C3: once Do is called, every map keeps exactly its keys (none added,
\* removed or renamed, a key that begins with "$" included), and a string
\* stored under a key that begins with "$" keeps its value unless the string
\* itself begins with "$".
C3_KeysPreserved ==
    \A p \in Procs : Called(p) =>
        \A a \in DOMAIN Pre(p) : Pre(p)[a].c = "map" =>
            /\ a \in DOMAIN heap
            /\ heap[a].c = "map"
            /\ DOMAIN heap[a].m = DOMAIN Pre(p)[a].m
            /\ Cardinality(DOMAIN heap[a].m) = Cardinality(DOMAIN Pre(p)[a].m)
            /\ \A key \in DOMAIN Pre(p)[a].m :
                 LET v0 == Pre(p)[a].m[key] IN
                 (HasPrefix(key) /\ v0.k = "string" /\ ~HasPrefix(v0.s))
                     => heap[a].m[key] = v0

\* C3 witness: Do returned after reaching a map whose key "$A" names a set
\* variable; the entry under "$A" held "AA" and is unchanged, the other entry
\* was substituted, and the keys are the same.
C3_Witness ==
    /\ Returned(1)
    /\ <<"A">> \in DOMAIN env /\ env[<<"A">>] = <<"A", "A">>
    /\ \E a \in MapsReached(Pre(1), arg[1]) :
        /\ Pre(1)[a].m[PayKey] = StrV(<<"A", "A">>, FALSE)
        /\ heap[a].m[PayKey] = StrV(<<"A", "A">>, FALSE)
        /\ Pre(1)[a].m[SibKey] = StrV(<<"$", "A">>, FALSE)
        /\ heap[a].m[SibKey] = StrV(<<"A", "A">>, FALSE)
        /\ DOMAIN heap[a].m = {PayKey, SibKey}

\* The nil pointers of heap h, and the other values of the container (struct,
\* array, slice or map) a location is in.
NilLocs(h) == {loc \in Locs(h) : At(h, loc) = PtrV(NIL)}
Siblings(h, loc) ==
    LET slot == loc[1]
        path == loc[2]
    IN IF Len(path) > 0
       THEN {x \in Locs(h) : /\ x[1] = slot
                             /\ Len(x[2]) = Len(path)
                             /\ SubSeq(x[2], 1, Len(path) - 1) = SubSeq(path, 1, Len(path) - 1)
                             /\ x[2] # path}
       ELSE IF slot[2]
       THEN {<<MapSlot(slot[1], key), <<>>>> : key \in DOMAIN h[slot[1]].m \ {slot[3]}}
       ELSE {}

\* The string a sibling value is or points to.
StringOf(h, loc) ==
    LET v == At(h, loc) IN
    IF v.k = "ptr" /\ v.ref # NIL THEN <<VarSlot(v.ref), <<>>>> ELSE loc

\* C4: no call ever works on the nil address; with a nil pointer in the input
\* (the argument itself, a field, an element or a map value) Do does not
\* panic, and when it has returned the pointer is still nil and every string
\* beside the nil pointer in its container (a string, or the string a pointer
\* beside it points to) has been processed as any reached string is.
C4_NilPointers ==
    \A p \in Procs :
        /\ \A i \in 1..Len(stack[p]) : stack[p][i].h.a # NIL
        /\ status[p] = "panicked" => NilLocs(Pre(p)) = {}
        /\ Returned(p) =>
             \A loc \in NilLocs(Pre(p)) :
                /\ At(heap, loc) = PtrV(NIL)
                /\ \A sib \in {StringOf(Pre(p), x) : x \in Siblings(Pre(p), loc)}
                                   \cap ReachedBy(p) :
                        At(heap, sib).s = Substitute(At(Pre(p), sib).s)

\* C4 witness: Do returned on an input whose first slice element or map value
\* is a nil pointer; the pointer is nil and the "$A" the pointer after it
\* points to was substituted.
C4_Witness ==
    /\ Returned(1)
    /\ <<"A">> \in DOMAIN env /\ env[<<"A">>] = <<"A", "A">>
    /\ \E loc \in NilLocs(Pre(1)) :
        /\ At(heap, loc) = PtrV(NIL)
        /\ \E x \in Siblings(Pre(1), loc) :
            /\ At(Pre(1), x).k = "ptr"
            /\ StringOf(Pre(1), x) \in ReachedBy(1)
            /\ At(Pre(1), StringOf(Pre(1), x)).s = <<"$", "A">>
            /\ At(heap, StringOf(Pre(1), x)).s = <<"A", "A">>

\* C4 witness for a struct field: the nil pointer is a field and the string
\* field after it was substituted.
C4_WitnessField ==
    /\ Returned(1)
    /\ <<"A">> \in DOMAIN env /\ env[<<"A">>] = <<"A", "A">>
    /\ \E loc \in NilLocs(Pre(1)) :
        \E x \in Siblings(Pre(1), loc) \cap ReachedBy(1) :
            /\ At(Pre(1), x).s = <<"$", "A">>
            /\ At(heap, x).s = <<"A", "A">>

\* C5 (as claimed): when Do is given a pointer to a pointer to a string that
\* holds "$" + name, the string holds the substituted value once Do returned.
C5_PointerChain ==
    \A p \in Procs : Returned(p) =>
        LET h == Pre(p)
            v1 == h[arg[p]].v
        IN (v1.k = "ptr" /\ v1.ref # NIL) =>
             LET v2 == h[v1.ref].v IN
             (v2.k = "ptr" /\ v2.ref # NIL) =>
                 LET v3 == h[v2.ref].v IN
                 (v3.k = "string" /\ HasPrefix(v3.s)) =>
                     heap[v2.ref].v.s = Substitute(v3.s)

\* C6 (as claimed): Do never fails, whatever the types of the values it meets.
C6_NeverFails == \A p \in Procs : status[p] # "panicked"

\* A struct whose fields are all numbers or booleans.
OnlyNonStrings(v) ==
    /\ v.k = "struct"
    /\ \A i \in 1..Len(v.f) : v.f[i].v.k \in {"int", "bool"}

\* C7: when Do is over, every value keeps its kind, every value that is not
\* a string (a number, a boolean, a pointer, a slice header, a map reference)
\* is the one it was before, and so is every struct that holds only numbers
\* and booleans.
C7_OnlyStringsChange ==
    \A p \in Procs : Over(p) =>
        \A loc \in Locs(Pre(p)) :
            LET v0 == At(Pre(p), loc)
                v1 == At(heap, loc)
            IN /\ v1.k = v0.k
               /\ v0.k \notin {"string", "struct", "array"} => v1 = v0
               /\ OnlyNonStrings(v0) => v1 = v0

\* C7 witness: Do returned having walked a settable struct { I int; B bool }
\* and a map whose values are numbers; both are unchanged, and a string
\* reached in the same call was substituted.
C7_Witness ==
    /\ Returned(1)
    /\ <<"A">> \in DOMAIN env /\ env[<<"A">>] = <<"A", "A">>
    /\ \E x \in Visits(Pre(1), arg[1]) :
        /\ x[3]
        /\ At(Pre(1), <<x[1], x[2]>>) = NonStrings
        /\ At(heap, <<x[1], x[2]>>) = NonStrings
    /\ \E loc \in ReachedBy(1) : At(heap, loc) # At(Pre(1), loc)

\* C7 witness for numbers in a map: the entries of a reached map are numbers
\* and were stored back unchanged.
C7_WitnessMap ==
    /\ Returned(1)
    /\ \E a \in MapsReached(Pre(1), arg[1]) :
        /\ Pre(1)[a].m[PayKey] = IntV(42)
        /\ heap[a].m[PayKey] = IntV(42)

\* The slices and arrays of heap h and the location of their i-th element.
SeqLocs(h) == {loc \in Locs(h) : At(h, loc).k \in {"slice", "array"}}
ElemLoc(h, loc, i) ==
    LET v == At(h, loc) IN
    IF v.k = "slice" THEN <<VarSlot(v.ref), <<v.off + i>>>>
    ELSE <<loc[1], Append(loc[2], i)>>
ElemCount(h, loc) ==
    LET v == At(h, loc) IN IF v.k = "slice" THEN v.len ELSE Len(v.e)

\* C8: when Do has returned, every slice and every array has the length it
\* had (a slice also its backing array), and for each index i what is stored
\* at i is the element that was at i, processed: each string in it is
\* substituted if Do reached it and is unchanged otherwise, everything else in
\* it keeps its kind. Slices and arrays alike.
C8_SequencesPreserved ==
    \A p \in Procs : Returned(p) =>
        LET h0 == Pre(p)
            R == ReachedBy(p)
        IN \A loc \in SeqLocs(h0) :
            /\ At(heap, loc).k = At(h0, loc).k
            /\ ElemCount(heap, loc) = ElemCount(h0, loc)
            /\ At(h0, loc).k = "slice" =>
                 /\ At(heap, loc) = At(h0, loc)
                 /\ Len(heap[At(h0, loc).ref].v.e) = Len(h0[At(h0, loc).ref].v.e)
            /\ \A i \in 1..ElemCount(h0, loc) :
                 LET el == ElemLoc(h0, loc, i) IN
                 \A q \in SubPaths(At(h0, el)) :
                     LET x == <<el[1], el[2] \o q>>
                         v0 == At(h0, x)
                         v1 == At(heap, x)
                     IN /\ v1.k = v0.k
                        /\ v0.k = "string" =>
                             v1.s = IF x \in R THEN Substitute(v0.s) ELSE v0.s

\* C8 witness: Do returned on a slice of arrays [["$$", "$A"], ["$A", "$A"]]
\* with A set to "AA": it is [["", "AA"], ["AA", "AA"]].
C8_Witness ==
    /\ Returned(1)
    /\ \E loc \in SeqLocs(Pre(1)) :
        LET e1 == ElemLoc(Pre(1), loc, 1)
            e2 == ElemLoc(Pre(1), loc, 2)
        IN /\ At(Pre(1), loc).k = "slice"
           /\ At(Pre(1), e1) = ArrayV(<<StrV(<<"$", "$">>, FALSE), StrV(<<"$", "A">>, FALSE)>>)
           /\ At(heap, e1) = ArrayV(<<StrV(<<>>, FALSE), StrV(<<"A", "A">>, FALSE)>>)
           /\ At(heap, e2) = ArrayV(<<StrV(<<"A", "A">>, FALSE), StrV(<<"A", "A">>, FALSE)>>)

\* C9: when Do has returned, for every map it reached and every key of it,
\* the entry is still there and what is stored under the key is the old value
\* after the traversal ran on it: every string doValue reaches from a
\* settable copy of the old value is substituted (in the entry itself and in
\* what it refers to), and everything in the entry keeps its kind.
C9_MapValuesPersist ==
    \A p \in Procs : Returned(p) =>
        LET h0 == Pre(p) IN
        \A a \in MapsReached(h0, arg[p]) :
            \A key \in DOMAIN h0[a].m :
                /\ key \in DOMAIN heap[a].m
                /\ \A q \in SubPaths(h0[a].m[key]) :
                     Get(heap[a].m[key], q).k = Get(h0[a].m[key], q).k
                /\ \A x \in Walk(h0, MapSlot(a, key), <<>>, TRUE) :
                     LET loc == <<x[1], x[2]>> IN
                     (x[3] /\ At(h0, loc).k = "string") =>
                         At(heap, loc).s = Substitute(At(h0, loc).s)

\* C9 witness: Do returned on a map whose value under "$A" was the struct
\* {"$$", "$A"} and under "k" the struct {"$A", "$A"}; with A set to "AA" the
\* map holds {"", "AA"} and {"AA", "AA"}.
C9_Witness ==
    /\ Returned(1)
    /\ \E a \in MapsReached(Pre(1), arg[1]) :
        /\ Pre(1)[a].m[PayKey] =
             StructV(<<FieldV(TRUE, StrV(<<"$", "$">>, FALSE)), FieldV(TRUE, Sibling)>>)
        /\ heap[a].m[PayKey] =
             StructV(<<FieldV(TRUE, StrV(<<>>, FALSE)),
                       FieldV(TRUE, StrV(<<"A", "A">>, FALSE))>>)
        /\ heap[a].m[SibKey] =
             StructV(<<FieldV(TRUE, StrV(<<"A", "A">>, FALSE)),
                       FieldV(TRUE, StrV(<<"A", "A">>, FALSE))>>)

\* C10: when no variable's value begins with "$", a second call of Do on the
\* same argument leaves memory as the first call left it.
C10_Idempotent ==
    \A p \in Procs :
        (Returned(p) /\ calls[p] = 2 /\ \A n \in DOMAIN env : ~HasPrefix(env[n]))
            => heap = Pre(p)

\* C10 witness: the second call returned; the first call had substituted a
\* reached "$A" by A's value "AA", and memory is as the first call left it.
C10_Witness ==
    /\ Returned(1) /\ calls[1] = 2
    /\ <<"A">> \in DOMAIN env /\ env[<<"A">>] = <<"A", "A">>
    /\ \E loc \in Reached(pre[1][1], arg[1]) :
        /\ At(pre[1][1], loc).s = <<"$", "A">>
        /\ At(heap, loc).s = <<"A", "A">>
    /\ heap = pre[1][2]
    /\ heap # pre[1][1]

\* Without the condition on the environment the second call may change memory
\* again (A set to "$$": "$A" becomes "$$", then "").
C10_Unconditional ==
    \A p \in Procs : (Returned(p) /\ calls[p] = 2) => heap = Pre(p)

----------------------------------------------------------------------------
\* The cells a value refers to, and the cells reachable from the cells S of
\* heap h (through exported and unexported fields alike).
RECURSIVE Refs(_)
Refs(v) ==
    CASE v.k = "ptr" -> IF v.ref = NIL THEN {} ELSE {v.ref}
      [] v.k \in {"slice", "map"} -> {v.ref}
      [] v.k = "struct" -> UNION {Refs(v.f[i].v) : i \in 1..Len(v.f)}
      [] v.k = "array" -> UNION {Refs(v.e[i]) : i \in 1..Len(v.e)}
      [] OTHER -> {}
CellRefs(h, a) ==
    IF h[a].c = "map" THEN UNION {Refs(h[a].m[key]) : key \in DOMAIN h[a].m}
    ELSE Refs(h[a].v)
RECURSIVE Cells(_, _)
Cells(h, S) ==
    LET T == S \cup UNION {CellRefs(h, a) : a \in S}
    IN IF T = S THEN S ELSE Cells(h, T)

\* Do on the argument in cell a of heap h panics in doMap: it reaches a map
\* entry of a named string type that substitution would change.
MustPanic(h, a) ==
    \E x \in Visits(h, a) :
        LET v == At(h, <<x[1], x[2]>>) IN
        /\ x[1][2] /\ x[2] = <<>>
        /\ v.k = "string" /\ v.named /\ expandEnvVar(v.s) # v.s

\* What a call of Do running alone leaves at location loc of heap h, R being
\* the strings it reaches: a reached string substituted once, any other leaf
\* as it was.
AloneAt(h, R, loc) ==
    LET v == At(h, loc) IN
    IF loc \in R THEN StrV(expandEnvVar(v.s), v.named) ELSE v

\* The outcome of a call of Do by p is the outcome of the call running alone:
\* it returns exactly when the lone call does, and then every cell of its
\* structure is there, every map has its keys and every leaf holds what the
\* lone call leaves in it.
AsAlone(p) ==
    LET h0 == Pre(p)
        own == Cells(h0, {arg[p]})
        R == ReachedBy(p)
    IN /\ status[p] = "panicked" => MustPanic(h0, arg[p])
       /\ Returned(p) =>
            /\ ~MustPanic(h0, arg[p])
            /\ \A a \in own :
                 /\ a \in DOMAIN heap
                 /\ heap[a].c = h0[a].c
                 /\ h0[a].c = "map" => DOMAIN heap[a].m = DOMAIN h0[a].m
            /\ \A loc \in Locs(h0) : loc[1][1] \in own =>
                 /\ At(heap, loc).k = At(h0, loc).k
                 /\ At(h0, loc).k \notin {"struct", "array"} =>
                      At(heap, loc) = AloneAt(h0, R, loc)

\* C11: two calls of Do running concurrently on structures that share no
\* cell, under every interleaving of their steps and with the environment
\* fixed: the structures stay disjoint, and each call ends as it ends when it
\* runs alone, with its structure in the state the lone call leaves.
C11_DisjointConcurrent ==
    /\ (Called(1) /\ Called(2)) =>
          Cells(Pre(1), {arg[1]}) \cap Cells(Pre(2), {arg[2]}) = {}
    /\ \A p \in Procs : Called(p) => AsAlone(p)

\* C11 witness: both calls returned and each changed its structure; the
\* second call began when the first had substituted one of its strings and
\* not yet another, which it substituted afterwards.
C11_Witness ==
    /\ Returned(1) /\ Returned(2)
    /\ \E loc \in ReachedBy(1) :
        /\ At(Pre(2), loc) # At(Pre(1), loc)
        /\ At(heap, loc) = At(Pre(2), loc)
    /\ \E loc \in ReachedBy(1) :
        /\ At(Pre(2), loc) = At(Pre(1), loc)
        /\ At(heap, loc) # At(Pre(1), loc)
    /\ \E loc \in ReachedBy(2) : At(heap, loc) # At(Pre(2), loc)

\* A call running alone (the other goroutine idle) ends as AsAlone says.
C11_Alone == \A p \in Procs : Called(p) => AsAlone(p)

\* C12 (as claimed): when Do has returned, every string it reached holds the
\* result of applying the substitution rule once to the value it had when Do
\* was called, also when the string is reachable along more than one path.
C12_SinglePass ==
    \A p \in Procs : Returned(p) =>
        \A loc \in ReachedBy(p) :
            At(heap, loc).s = expandEnvVar(At(Pre(p), loc).s)

\* Where C12 fails: Do returned, a reached string held "$A" with A set to
\* "$$" and "$" unset, and it holds "" (substituted twice), not "$$".
C12_Twice ==
    /\ Returned(1)
    /\ \E loc \in ReachedBy(1) :
        /\ At(Pre(1), loc).s = <<"$", "A">>
        /\ expandEnvVar(<<"$", "A">>) = <<"$", "$">>
        /\ At(heap, loc).s = <<>>

\* The unexported fields of heap h, and the struct a field is in.
StructOf(loc) == <<loc[1], SubSeq(loc[2], 1, Len(loc[2]) - 1)>>
UnexportedLocs(h) ==
    {loc \in Locs(h) :
        /\ Len(loc[2]) > 0
        /\ At(h, StructOf(loc)).k = "struct"
        /\ ~At(h, StructOf(loc)).f[loc[2][Len(loc[2])]].exp}

\* C13: once Do is called on an input with unexported fields it does not
\* panic, and every unexported field holds the value it had, as does every
\* cell reachable through the field (a string, a nested struct, a slice, a
\* map, a pointer's target); when Do has returned, the exported string fields
\* of every struct Do could set are substituted, whether or not the struct
\* has unexported fields beside them.
C13_UnexportedSkipped ==
    \A p \in Procs : Called(p) =>
        LET h0 == Pre(p)
            U == UnexportedLocs(h0)
        IN /\ U # {} => status[p] # "panicked"
           /\ \A loc \in U :
                /\ At(heap, loc) = At(h0, loc)
                /\ \A a \in Cells(h0, Refs(At(h0, loc))) :
                     a \in DOMAIN heap /\ heap[a] = h0[a]
           /\ Returned(p) =>
                \A x \in Visits(h0, arg[p]) :
                    LET v == At(h0, <<x[1], x[2]>>) IN
                    (x[3] /\ v.k = "struct") =>
                        \A i \in 1..Len(v.f) :
                            (v.f[i].exp /\ v.f[i].v.k = "string") =>
                                At(heap, <<x[1], Append(x[2], i)>>).s
                                    = Substitute(v.f[i].v.s)

\* C13 witness: Do returned nil; a struct it could set has an unexported
\* field holding a slice of "$$" and "$A" (or, in the second case, the string
\* "$A" itself) and an exported field "$A"; with A set to "AA" the exported
\* field is "AA" and the unexported field and the slice's elements are as
\* they were.
C13_Witness ==
    /\ Returned(1)
    /\ <<"A">> \in DOMAIN env /\ env[<<"A">>] = <<"A", "A">>
    /\ \E loc \in UnexportedLocs(Pre(1)) :
        LET v == At(Pre(1), loc)
            st == StructOf(loc)
        IN /\ v.k = "slice"
           /\ Pre(1)[v.ref].v.e[1] = StrV(<<"$", "$">>, FALSE)
           /\ heap[v.ref].v.e = Pre(1)[v.ref].v.e
           /\ At(heap, loc) = v
           /\ At(Pre(1), st).f[2] = FieldV(TRUE, Sibling)
           /\ At(heap, st).f[2] = FieldV(TRUE, StrV(<<"A", "A">>, FALSE))

C13_WitnessString ==
    /\ Returned(1)
    /\ <<"A">> \in DOMAIN env /\ env[<<"A">>] = <<"A", "A">>
    /\ \E loc \in UnexportedLocs(Pre(1)) :
        /\ At(Pre(1), loc) = StrV(<<"$", "A">>, FALSE)
        /\ At(heap, loc) = StrV(<<"$", "A">>, FALSE)
        /\ At(heap, StructOf(loc)).f[2] = FieldV(TRUE, StrV(<<"A", "A">>, FALSE))

\* The number of values in the structure Do is given: every location of every
\* cell reachable from the argument (each struct, field, array, element, map
\* entry, pointer, slice header and pointed-to value counted once).
NumValues(h, a) ==
    Cardinality({loc \in Locs(h) : loc[1][1] \in Cells(h, {a})})

\* The nesting depth of value v in heap h (of an acyclic structure): 1 for a
\* leaf, one more than its deepest part for a container or a pointer.
Max(S) == CHOOSE m \in S \cup {0} : \A x \in S : x <= m
RECURSIVE Nesting(_, _)
Nesting(h, v) ==
    1 + Max(CASE v.k = "ptr" ->
                   IF v.ref = NIL THEN {} ELSE {Nesting(h, h[v.ref].v)}
              [] v.k = "struct" -> {Nesting(h, v.f[i].v) : i \in 1..Len(v.f)}
              [] v.k = "array" -> {Nesting(h, v.e[i]) : i \in 1..Len(v.e)}
              [] v.k = "slice" ->
                   {Nesting(h, h[v.ref].v.e[v.off + i]) : i \in 1..v.len}
              [] v.k = "map" ->
                   {Nesting(h, h[v.ref].m[key]) : key \in DOMAIN h[v.ref].m}
              [] OTHER -> {})

\* The calls of doValue never outnumber the values of the structure.
CallsBounded(p) == doValueCalls[p] <= NumValues(Pre(p), arg[p])
\* The calls of doValue on the stack never outnumber the nesting levels, and
\* the stack never runs out.
DepthBounded(p) ==
    /\ Len(stack[p]) <= Nesting(Pre(p), Pre(p)[arg[p]].v)
    /\ status[p] # "overflow"

\* C14 (as claimed): on a finite acyclic input the number of calls of doValue
\* is at most the number of values in the structure and the recursion depth
\* at most its nesting depth (so Do terminates).
C14_Bounded ==
    \A p \in Procs : Called(p) => (CallsBounded(p) /\ DepthBounded(p))

\* Where C14 fails: Do returned nil on an acyclic input after more calls of
\* doValue than the structure has values.
C14_MoreCallsThanValues ==
    /\ Returned(1)
    /\ doValueCalls[1] > NumValues(Pre(1), arg[1])

\* The parts of C14 that hold: the recursion depth is bounded by the nesting
\* depth, also when values are shared, and a call that runs ends.
C14_DepthBounded == \A p \in Procs : Called(p) => DepthBounded(p)
C14_Terminates == \A p \in Procs : (status[p] = "running") ~> Over(p)

\* On a structure that reaches itself Do recurses until the stack runs out.
C14_CycleOverflows ==
    \A p \in Procs : (status[p] = "running") ~> (status[p] = "overflow")

\* The structure a value v of heap h stands for, whatever the addresses of
\* its cells: pointers, slices and maps replaced by what they refer to.
RECURSIVE Deep(_, _)
Deep(h, v) ==
    CASE v.k = "ptr" ->
           IF v.ref = NIL THEN v ELSE [k |-> "ptr", to |-> Deep(h, h[v.ref].v)]
      [] v.k = "struct" ->
           [k |-> "struct",
            f |-> [i \in 1..Len(v.f) |-> FieldV(v.f[i].exp, Deep(h, v.f[i].v))]]
      [] v.k = "array" -> [k |-> "array", e |-> [i \in 1..Len(v.e) |-> Deep(h, v.e[i])]]
      [] v.k = "slice" ->
           [k |-> "slice", off |-> v.off, len |-> v.len, arr |-> Deep(h, h[v.ref].v)]
      [] v.k = "map" ->
           [k |-> "map", m |-> [key \in DOMAIN h[v.ref].m |-> Deep(h, h[v.ref].m[key])]]
      [] OTHER -> v
\* The structure goroutine p gave to Do, as it is now.
Structure(p) == Deep(heap, heap[arg[p]].v)

\* C15 (as claimed): two runs of Do on equal inputs under one environment end
\* the same way and leave equal structures, in whatever order each of them
\* takes the keys of the maps.
C15_OrderIndependent ==
    (Over(1) /\ Over(2)) =>
        /\ status[1] = status[2]
        /\ Structure(1) = Structure(2)

\* Where C15 fails: both runs are over, and the string under key "$A" was
\* substituted in one of them and is as it was in the other.
C15_OrderSeen ==
    /\ Over(1) /\ Over(2)
    /\ Structure(1).k = "map" /\ Structure(2).k = "map"
    /\ Structure(1).m[PayKey].k = "struct"
    /\ Structure(1).m[PayKey].f[1].v = StrV(<<"$", "A">>, FALSE)
    /\ Structure(2).m[PayKey].f[1].v = StrV(expandEnvVar(<<"$", "A">>), FALSE)

\* The parts of C15 that hold: the two runs end the same way (both return or
\* both panic), and when they return they leave equal structures.
C15_SameEnd == (Over(1) /\ Over(2)) => status[1] = status[2]
C15_SameWhenReturned ==
    (Returned(1) /\ Returned(2)) => Structure(1) = Structure(2)

\* The value goroutine p passed to Do.
Passed(p) == Pre(p)[arg[p]].v
ByValue(p) == Passed(p).k \in {"struct", "string"}
ByPointer(p) ==
    /\ Passed(p).k = "ptr"
    /\ Passed(p).ref # NIL
    /\ Pre(p)[Passed(p).ref].v.k \in {"struct", "string"}

\* C16: when Do is passed a struct or a string by value it never panics and
\* writes nothing: in every state after the call memory is what it was (the
\* value, its fields, and every slice, map and pointer target reachable from
\* them), whatever begins with "$"; when it is passed a pointer to a struct or
\* a string and has returned, the string, or every exported string field of
\* the struct, is substituted.
C16_ByValueUnchanged ==
    \A p \in Procs : Called(p) =>
        /\ ByValue(p) =>
             /\ status[p] \in {"running", "returned"}
             /\ heap = Pre(p)
        /\ (ByPointer(p) /\ Returned(p)) =>
             LET a == Passed(p).ref
                 v == Pre(p)[a].v
             IN IF v.k = "string"
                THEN heap[a].v.s = Substitute(v.s)
                ELSE \A i \in 1..Len(v.f) :
                        (v.f[i].exp /\ v.f[i].v.k = "string") =>
                            heap[a].v.f[i].v.s = Substitute(v.f[i].v.s)

\* C16 witness: Do returned nil after it was passed by value a struct whose
\* first field is a map holding "$$" and "$A" and whose second field is the
\* string "$A", with A set to "AA": memory is as it was.
C16_Witness ==
    /\ Returned(1)
    /\ <<"A">> \in DOMAIN env /\ env[<<"A">>] = <<"A", "A">>
    /\ Passed(1).k = "struct"
    /\ Passed(1).f[1].exp /\ Passed(1).f[1].v.k = "map"
    /\ heap[Passed(1).f[1].v.ref].m[PayKey] = StrV(<<"$", "$">>, FALSE)
    /\ Passed(1).f[2] = FieldV(TRUE, Sibling)
    /\ heap = Pre(1)

\* C16 witness for the pointer: the struct { "$$", "$A" } passed by pointer
\* is { "", "AA" } when Do returned.
C16_WitnessPointer ==
    /\ Returned(1)
    /\ <<"A">> \in DOMAIN env /\ env[<<"A">>] = <<"A", "A">>
    /\ ByPointer(1)
    /\ Pre(1)[Passed(1).ref].v =
         StructV(<<FieldV(TRUE, StrV(<<"$", "$">>, FALSE)), FieldV(TRUE, Sibling)>>)
    /\ heap[Passed(1).ref].v =
         StructV(<<FieldV(TRUE, StrV(<<>>, FALSE)),
                   FieldV(TRUE, StrV(<<"A", "A">>, FALSE))>>)

\* C16 witness for a string passed by value: "$A" stays "$A".
C16_WitnessString ==
    /\ Returned(1)
    /\ <<"A">> \in DOMAIN env /\ env[<<"A">>] = <<"A", "A">>
    /\ Passed(1) = StrV(<<"$", "A">>, FALSE)
    /\ heap = Pre(1)

====
